---- MODULE Spec2Model ----
(***************************************************************************)
(* A model of scqtlib/utils/io_utils.py: the 10X directory loader and      *)
(* saver, the horizontal stacking of annotated matrices, the dropEst       *)
(* loader and the preprocessing pipeline.  Every function of the file is a *)
(* linear sequence of statements; each is modelled as an operator that     *)
(* computes what the statements compute, and each specification below      *)
(* draws the inputs of one function from bounded sets and applies it.      *)
(***************************************************************************)
EXTENDS Integers, Sequences, FiniteSets, TLC

VARIABLES pc, args, fs, ret, trace

vars == <<pc, args, fs, ret, trace>>

(***************************************************************************)
(* Bounds of the model.                                                    *)
(***************************************************************************)
MaxDim == 2        \* genes and cells of a count matrix: 1..MaxDim each
MaxCount == 1      \* a count matrix entry: 0..MaxCount
MaxThresh == 1     \* a filtering threshold: 0..MaxThresh, or None

(***************************************************************************)
(* Python values.                                                          *)
(***************************************************************************)
\* Optional[int]: None is the empty tuple, n is <<n>>.
None == <<>>
Some(n) == <<n>>
Unset == [exc |-> "unset"]
Raise(e) == [exc |-> e]

RECURSIVE SumSeq(_)
SumSeq(s) == IF s = <<>> THEN 0 ELSE Head(s) + SumSeq(Tail(s))

RECURSIVE ProdSeq(_)
ProdSeq(s) == IF s = <<>> THEN 1 ELSE Head(s) * ProdSeq(Tail(s))

\* The positions of a boolean mask that are True, ascending.
RECURSIVE TruePositions(_, _)
TruePositions(idx, k) ==
    IF k > Len(idx) THEN <<>>
    ELSE (IF idx[k] THEN <<k>> ELSE <<>>) \o TruePositions(idx, k + 1)

(***************************************************************************)
(* Sparse matrices (scipy): a shape and the dense table of the entries.    *)
(***************************************************************************)
\* The r by c matrix of the entries at[i, j].
Cells2D(r, c) == (1..r) \X (1..c)

Matrix(r, c, at) ==
    [shape |-> <<r, c>>, data |-> [i \in 1..r |-> [j \in 1..c |-> at[i, j]]]]

Matrices(r, c) ==
    [shape : {<<r, c>>}, data : [1..r -> [1..c -> 0..MaxCount]]]

\* np.array(np.sum(mat, axis=0)).reshape(-1): one total per column.
ColSums(mat) ==
    [j \in 1..mat.shape[2] |->
        SumSeq([i \in 1..mat.shape[1] |-> mat.data[i][j]])]

\* np.array(np.sum(mat, axis=1)).reshape(-1): one total per row.
RowSums(mat) ==
    [i \in 1..mat.shape[1] |-> SumSeq(mat.data[i])]

\* mat[:, idx] with a boolean mask of the columns.
SelectCols(mat, idx) ==
    LET keep == TruePositions(idx, 1)
    IN  Matrix(mat.shape[1], Len(keep),
               [p \in Cells2D(mat.shape[1], Len(keep)) |->
                   mat.data[p[1]][keep[p[2]]]])

\* mat[idx, :] with a boolean mask of the rows.
SelectRows(mat, idx) ==
    LET keep == TruePositions(idx, 1)
    IN  Matrix(Len(keep), mat.shape[2],
               [p \in Cells2D(Len(keep), mat.shape[2]) |->
                   mat.data[keep[p[1]]][p[2]]])

\* mat.T
Transpose(mat) ==
    Matrix(mat.shape[2], mat.shape[1],
           [p \in Cells2D(mat.shape[2], mat.shape[1]) |-> mat.data[p[2]][p[1]]])

\* a + b, element-wise
MatAdd(a, b) ==
    Matrix(a.shape[1], a.shape[2],
           [p \in Cells2D(a.shape[1], a.shape[2]) |->
               a.data[p[1]][p[2]] + b.data[p[1]][p[2]]])

(***************************************************************************)
(* numpy string arrays: a shape and the elements in row-major order.       *)
(***************************************************************************)
Array(shape, data) == [shape |-> shape, data |-> data]

RECURSIVE Flatten(_)
Flatten(rows) == IF rows = <<>> THEN <<>> ELSE Head(rows) \o Flatten(Tail(rows))

\* The k-th block of n consecutive elements of a flat sequence.
Block(data, k, n) == SubSeq(data, (k - 1) * n + 1, k * n)

\* arr[idx] with a boolean mask: the mask indexes the first axis and must
\* have its length; a 0-d array has no axis to index.
CanIndex(arr, idx) ==
    /\ Len(arr.shape) > 0
    /\ arr.shape[1] = Len(idx)

ArrayIndex(arr, idx) ==
    LET keep == TruePositions(idx, 1)
        n == ProdSeq(Tail(arr.shape))
    IN  Array(<<Len(keep)>> \o Tail(arr.shape),
              Flatten([k \in 1..Len(keep) |-> Block(arr.data, keep[k], n)]))

(***************************************************************************)
(* Files.  A file name is the directory path, as its whitespace-separated  *)
(* words, and the name under it.  A file holds either a MatrixMarket       *)
(* coordinate matrix (shape and non-zero entries) or lines of              *)
(* tab-separated fields, and is gzip-compressed or not.                    *)
(***************************************************************************)
FileRef(path, name) == [path |-> path, name |-> name]

MtxFile(shape, entries) ==
    [gz |-> FALSE, shape |-> shape, entries |-> entries, lines |-> <<>>]

TsvFile(lines) ==
    [gz |-> FALSE, shape |-> <<>>, entries |-> {}, lines |-> lines]

\* scipy.io.mmwrite of a sparse matrix: the header and the stored entries.
mmwrite(mat) ==
    MtxFile(mat.shape,
            {<<i, j, mat.data[i][j]>> :
                <<i, j>> \in {p \in (1..mat.shape[1]) \X (1..mat.shape[2]) :
                                mat.data[p[1]][p[2]] # 0}})

\* scipy.io.mmread(...).tocsr(): entries not listed are zero.
mmread(file) ==
    Matrix(file.shape[1], file.shape[2],
           [p \in Cells2D(file.shape[1], file.shape[2]) |->
              IF \E e \in file.entries : e[1] = p[1] /\ e[2] = p[2]
              THEN (CHOOSE e \in file.entries : e[1] = p[1] /\ e[2] = p[2])[3]
              ELSE 0])

\* np.genfromtxt(..., dtype="str", delimiter="\t"): the table of fields,
\* squeezed: every axis of length one is dropped.
genfromtxt(file) ==
    LET full == <<Len(file.lines), Len(file.lines[1])>>
    IN  Array(SelectSeq(full, LAMBDA d : d # 1), Flatten(file.lines))

Exists(fsys, ref) == ref \in DOMAIN fsys

\* gzip -f <file>: <file>.gz replaces <file>; a name that is no regular file
\* is reported and skipped.
GzName(ref) == FileRef(ref.path, ref.name \o ".gz")

Gzip(fsys, ref) ==
    IF ref.name # "" /\ Exists(fsys, ref)
    THEN [r \in (DOMAIN fsys \ {ref}) \cup {GzName(ref)} |->
             IF r = GzName(ref) THEN [fsys[ref] EXCEPT !.gz = TRUE] ELSE fsys[r]]
    ELSE fsys

\* Writing a file creates it or replaces what it held.
WriteFile(fsys, ref, file) ==
    [r \in DOMAIN fsys \cup {ref} |-> IF r = ref THEN file ELSE fsys[r]]

(***************************************************************************)
(* load_10X                                                                *)
(***************************************************************************)
Sources == {"CellRanger2", "CellRanger3", "STARsolo"}

\* The three files load_10X opens for a source.
Layout(source) ==
    IF source = "STARsolo"
    THEN [mtx |-> "/matrix.mtx", genes |-> "/features.tsv",
          cells |-> "/barcodes.tsv"]
    ELSE IF source = "CellRanger3"
    THEN [mtx |-> "/matrix.mtx.gz", genes |-> "/features.tsv.gz",
          cells |-> "/barcodes.tsv.gz"]
    ELSE [mtx |-> "/matrix.mtx", genes |-> "/genes.tsv",
          cells |-> "/barcodes.tsv"]

\* "## load 10X matrix folder": the matrix, the genes and the cells as read;
\* n_counts is a local that is not bound yet.
ReadDir(fsys, path, source) ==
    LET lay == Layout(source)
        m == FileRef(path, lay.mtx)
        g == FileRef(path, lay.genes)
        c == FileRef(path, lay.cells)
    IN  IF Exists(fsys, m) /\ Exists(fsys, g) /\ Exists(fsys, c)
        THEN [exc |-> "none", mat |-> mmread(fsys[m]),
              genes |-> genfromtxt(fsys[g]), cells |-> genfromtxt(fsys[c]),
              n_counts |-> None]
        ELSE Raise("FileNotFoundError")

\* if min_counts is not None and min_counts > 0
CellFilterOn(min_counts) == min_counts # None /\ min_counts[1] > 0

\* The gene filter run for every min_cells that is not None.
GeneFilterOnNotNone(min_cells) == min_cells # None

\* if min_cells is not None and min_cells > 0
GeneFilterOn(min_cells) == min_cells # None /\ min_cells[1] > 0

\* idx = n_counts >= min_counts
CountMask(n_counts, min_counts) ==
    [k \in 1..Len(n_counts) |-> n_counts[k] >= min_counts[1]]

\* "## filter cells"
FilterCells(st, min_counts) ==
    IF st.exc = "none" /\ CellFilterOn(min_counts)
    THEN LET n_counts == ColSums(st.mat)
             idx == CountMask(n_counts, min_counts)
         IN  IF CanIndex(st.cells, idx)
             THEN [st EXCEPT !.mat = SelectCols(st.mat, idx),
                             !.cells = ArrayIndex(st.cells, idx),
                             !.n_counts = Some(n_counts)]
             ELSE Raise("IndexError")
    ELSE st

\* "## filter genes": n_cells is computed and not used; the mask is taken
\* from n_counts and min_counts, the locals of the cell filter.
FilterGenes(st, min_counts, min_cells) ==
    IF st.exc = "none" /\ GeneFilterOn(min_cells)
    THEN LET n_cells == RowSums(st.mat)
         IN  IF st.n_counts = None
             THEN Raise("UnboundLocalError")
             ELSE LET idx == CountMask(st.n_counts[1], min_counts)
                  IN  IF Len(idx) = st.mat.shape[1] /\ CanIndex(st.genes, idx)
                      THEN [st EXCEPT !.mat = SelectRows(st.mat, idx),
                                      !.genes = ArrayIndex(st.genes, idx)]
                      ELSE Raise("IndexError")
    ELSE st

\* return mat, genes, cells
Load10X(fsys, path, min_counts, min_cells, source) ==
    LET st == FilterGenes(FilterCells(ReadDir(fsys, path, source), min_counts),
                          min_counts, min_cells)
    IN  IF st.exc = "none"
        THEN [exc |-> "none", mat |-> st.mat, genes |-> st.genes,
              cells |-> st.cells]
        ELSE st

\* The gene table and the barcode list of a matrix folder, named by position.
GeneTable(n) ==
    [i \in 1..n |-> <<"ENSG" \o ToString(i), "Gene" \o ToString(i)>>]

Barcodes(n) == [j \in 1..n |-> "BC" \o ToString(j) \o "-1"]

AllMatrices == UNION {Matrices(r, c) : r \in 1..MaxDim, c \in 1..MaxDim}

Thresholds == {None} \cup {Some(n) : n \in 0..MaxThresh}

\* A matrix folder as the pipeline named by source lays it out.
MatrixFolder(path, source, mat) ==
    LET lay == Layout(source)
        m == FileRef(path, lay.mtx)
        g == FileRef(path, lay.genes)
        c == FileRef(path, lay.cells)
        z == (source = "CellRanger3")
    IN  [r \in {m, g, c} |->
            IF r = m THEN [mmwrite(mat) EXCEPT !.gz = z]
            ELSE IF r = g
            THEN [TsvFile(GeneTable(mat.shape[1])) EXCEPT !.gz = z]
            ELSE [TsvFile([j \in 1..mat.shape[2] |-> <<Barcodes(mat.shape[2])[j]>>])
                    EXCEPT !.gz = z]]

InitLoad ==
    /\ pc = "load_10X"
    /\ \E mat \in AllMatrices, source \in Sources :
          /\ fs = MatrixFolder(<<"data">>, source, mat)
          /\ \E min_counts \in Thresholds, min_cells \in Thresholds :
                args = [path |-> <<"data">>, min_counts |-> min_counts,
                        min_cells |-> min_cells, source |-> source]
    /\ ret = Unset
    /\ trace = <<>>

load_10X ==
    /\ pc = "load_10X"
    /\ ret' = Load10X(fs, args.path, args.min_counts, args.min_cells,
                      args.source)
    /\ pc' = "done"
    /\ UNCHANGED <<args, fs, trace>>

SpecLoad == InitLoad /\ [][load_10X]_vars

\* What load_10X read, before any filtering.
AsRead == ReadDir(fs, args.path, args.source)

(***************************************************************************)
(* Claims about load_10X                                                   *)
(***************************************************************************)
Positive(t) == t # None /\ t[1] > 0

\* The barcodes of the folder, one per line of the barcode file.
BarcodeLines ==
    LET f == fs[FileRef(args.path, Layout(args.source).cells)]
    IN  [j \in 1..Len(f.lines) |-> f.lines[j][1]]

\* The columns whose total count is at least min_counts.
KeptCells ==
    LET n == ColSums(AsRead.mat)
    IN  [j \in 1..Len(n) |-> n[j] >= args.min_counts[1]]

\* The matrix after the cell filter the claims describe.
CellFiltered ==
    IF Positive(args.min_counts) THEN SelectCols(AsRead.mat, KeptCells)
    ELSE AsRead.mat

\* The rows whose total over the remaining cells is at least min_cells.
KeptGenes ==
    LET n == RowSums(CellFiltered)
    IN  [i \in 1..Len(n) |-> n[i] >= args.min_cells[1]]

\* C1: for every positive min_cells, whatever min_counts is, load_10X
\* returns normally, and the returned matrix holds exactly the rows (genes)
\* that meet the min_cells threshold over the remaining cells, in their
\* order, with the columns left as the cell filter left them.
C1_GeneFilterByMinCells ==
    (pc = "done" /\ Positive(args.min_cells)) =>
        /\ ret.exc = "none"
        /\ ret.mat = SelectRows(CellFiltered, KeptGenes)

\* C2: for every positive min_counts, with min_cells None, load_10X returns
\* the columns whose total count is >= min_counts, the barcodes of those
\* columns in the same order, and the rows and the genes unchanged.
C2_CellFilterByMinCounts ==
    (pc = "done" /\ Positive(args.min_counts) /\ args.min_cells = None) =>
        /\ ret.exc = "none"
        /\ ret.mat = SelectCols(AsRead.mat, KeptCells)
        /\ ret.cells.data =
              [k \in 1..Len(TruePositions(KeptCells, 1)) |->
                  BarcodeLines[TruePositions(KeptCells, 1)[k]]]
        /\ ret.genes = AsRead.genes

\* C2 holds on every folder that lists at least two barcodes.
C2_TwoOrMoreCells ==
    Len(BarcodeLines) >= 2 => C2_CellFilterByMinCounts

\* C3: when min_counts and min_cells are each None or not positive,
\* load_10X returns the matrix, the genes and the cells exactly as read.
C3_NoFilterReturnsAsRead ==
    (pc = "done" /\ ~Positive(args.min_counts) /\ ~Positive(args.min_cells)) =>
        /\ ret.exc = "none"
        /\ ret.mat = AsRead.mat
        /\ ret.genes = AsRead.genes
        /\ ret.cells = AsRead.cells
        /\ ret.cells.data = BarcodeLines
        /\ ret.genes.data =
              Flatten(fs[FileRef(args.path, Layout(args.source).genes)].lines)
        /\ LET f == fs[FileRef(args.path, Layout(args.source).mtx)]
           IN  /\ ret.mat.shape = f.shape
               /\ \A e \in f.entries : ret.mat.data[e[1]][e[2]] = e[3]
               /\ \A i \in 1..f.shape[1], j \in 1..f.shape[2] :
                     ret.mat.data[i][j] # 0 => <<i, j, ret.mat.data[i][j]>> \in f.entries

C3_Witness ==
    /\ pc = "done"
    /\ args.min_counts = Some(0)
    /\ args.min_cells = None
    /\ ret.exc = "none"
    /\ ret.mat.shape = <<MaxDim, MaxDim>>
    /\ \E i \in 1..MaxDim : SumSeq(ret.mat.data[i]) = 0
    /\ ret.cells.shape = <<MaxDim>>

(***************************************************************************)
(* save_10X                                                                *)
(***************************************************************************)
\* (path + name) as the words str.split() cuts the command line into: each
\* word of the path but the last is an argument of its own, and the last
\* word carries the file name.
CommandWords(path, name) ==
    [k \in 1..Len(path) |->
        IF k = Len(path) THEN FileRef(<<path[k]>>, name)
        ELSE FileRef(<<path[k]>>, "")]

\* for ii in range(genes.shape[0]): "\t".join(genes[ii, :]) + "\n"
GeneLines(genes) ==
    [ii \in 1..genes.shape[1] |-> Block(genes.data, ii, genes.shape[2])]

\* for _cell in barcodes: "%s\n" %(_cell)
BarcodeFileLines(barcodes) ==
    [k \in 1..Len(barcodes.data) |-> <<barcodes.data[k]>>]

RECURSIVE GzipAll(_, _)
GzipAll(fsys, refs) ==
    IF refs = <<>> THEN fsys ELSE GzipAll(Gzip(fsys, Head(refs)), Tail(refs))

\* "gzip -f %s %s %s" %(...) split into words, run, and waited for.
RunGzip(fsys, path) ==
    GzipAll(fsys, CommandWords(path, "/matrix.mtx")
                     \o CommandWords(path, "/features.tsv")
                     \o CommandWords(path, "/barcodes.tsv"))

Save10X(fsys, path, mat, genes, barcodes, version3) ==
    LET f1 == WriteFile(fsys, FileRef(path, "/matrix.mtx"), mmwrite(mat))
        f2 == WriteFile(f1,
                        FileRef(path, IF version3 THEN "/features.tsv"
                                                  ELSE "/genes.tsv"),
                        TsvFile(GeneLines(genes)))
        f3 == WriteFile(f2, FileRef(path, "/barcodes.tsv"),
                        TsvFile(BarcodeFileLines(barcodes)))
    IN  IF version3 THEN RunGzip(f3, path) ELSE f3

EmptyFs == [r \in {} |-> TsvFile(<<>>)]

Paths == {<<"out">>, <<"my", "out">>}

InitSave ==
    /\ pc = "save_10X"
    /\ \E mat \in AllMatrices, path \in Paths, version3 \in BOOLEAN,
          source \in Sources :
          args = [path |-> path, mat |-> mat,
                  genes |-> Array(<<mat.shape[1], Len(GeneTable(1)[1])>>,
                                  Flatten(GeneTable(mat.shape[1]))),
                  barcodes |-> Array(<<mat.shape[2]>>, Barcodes(mat.shape[2])),
                  version3 |-> version3, source |-> source,
                  min_counts |-> None, min_cells |-> None]
    /\ fs = EmptyFs
    /\ ret = Unset
    /\ trace = <<>>

save_10X ==
    /\ pc = "save_10X"
    /\ fs' = Save10X(fs, args.path, args.mat, args.genes, args.barcodes,
                     args.version3)
    /\ pc' = "load_10X"
    /\ UNCHANGED <<args, ret, trace>>

NextSave == save_10X \/ load_10X

SpecSave == InitSave /\ [][NextSave]_vars

\* The layout that goes with the version the folder was saved in.
SameVersion ==
    \/ ~args.version3 /\ args.source = "CellRanger2"
    \/ args.version3 /\ args.source = "CellRanger3"

\* C4: after save_10X returns, load_10X of the same version with no
\* filtering finds its three files and returns the matrix, the genes and
\* the barcodes that were saved.
C4_SaveLoadRoundTrip ==
    (pc = "done" /\ SameVersion) =>
        /\ ret.exc = "none"
        /\ ret.mat = args.mat
        /\ ret.genes = args.genes
        /\ ret.cells = args.barcodes

\* C4 holds when the path is one word and the matrix has at least two genes
\* and two cells.
C4_OneWordPathTwoByTwo ==
    (Len(args.path) = 1 /\ args.mat.shape[1] >= 2 /\ args.mat.shape[2] >= 2)
        => C4_SaveLoadRoundTrip

\* C4, the matrix alone: it comes back whenever the files are found.
C4_MatrixRoundTrip ==
    (pc = "done" /\ SameVersion /\ ret.exc = "none") => ret.mat = args.mat

(***************************************************************************)
(* adata_hstack                                                            *)
(***************************************************************************)
MaxBlocks == 2     \* blocks in a call of adata_hstack: 1..MaxBlocks
MaxRows == 2       \* cells of one block: 0..MaxRows

\* ["S%d" %i] * n
Repeat(x, n) == [k \in 1..n |-> x]

\* for i in range(len(blocks)):
\*     sample_ids_default += ["S%d" %i] * blocks[i].shape[0]
SampleIdsDefaultOneBased(blocks) ==
    Flatten([b \in 1..Len(blocks) |->
                Repeat("S" \o ToString(b), Len(blocks[b].obs))])

SampleIdsDefault(blocks) ==
    Flatten([b \in 1..Len(blocks) |->
                Repeat("S" \o ToString(b - 1), Len(blocks[b].obs))])

\* The sample ids used whatever their length.
PickSampleIdsUnchecked(sample_ids, n_obs, default) ==
    IF sample_ids # None THEN sample_ids[1] ELSE default

\* if sample_ids is not None:
\*     if len(sample_ids) != len(new_obs): sample_ids = sample_ids_default
\* else: sample_ids = sample_ids_default
PickSampleIds(sample_ids, n_obs, default) ==
    IF sample_ids # None
    THEN (IF Len(sample_ids[1]) # n_obs THEN default ELSE sample_ids[1])
    ELSE default

\* if layer_keys is None: layer_keys = blocks[0].layers.keys()
LayerKeys(blocks, layer_keys) ==
    IF layer_keys = None THEN DOMAIN blocks[1].layers ELSE layer_keys[1]

\* layers[_key] = hstack([adata.layers[_key].T for adata in blocks]).T, and
\* None when there is no key.
StackLayers(blocks, keys) ==
    IF keys = {} THEN None
    ELSE Some([key \in keys |->
                  Flatten([b \in 1..Len(blocks) |-> blocks[b].layers[key]])])

\* A list is passed as <<list>>, None as <<>>; the keys as a set.
AdataHstack(blocks, sample_ids, layer_keys) ==
    LET keys == LayerKeys(blocks, layer_keys)
        new_X == Flatten([b \in 1..Len(blocks) |-> blocks[b].X])
        new_obs == Flatten([b \in 1..Len(blocks) |-> blocks[b].obs])
        ids == PickSampleIds(sample_ids, Len(new_obs), SampleIdsDefault(blocks))
    IN  IF \E b \in 1..Len(blocks) : ~(keys \subseteq DOMAIN blocks[b].layers)
        THEN Raise("KeyError")
        ELSE IF Len(ids) > Len(new_obs) THEN Raise("IndexError")
        ELSE IF Len(ids) < Len(new_obs) THEN Raise("ValueError")
        ELSE [exc |-> "none", X |-> new_X, obs_index |-> new_obs,
              var |-> blocks[1].var, layers |-> StackLayers(blocks, keys),
              cell_id |-> [i \in 1..Len(ids) |-> new_obs[i] \o ":" \o ids[i]],
              sample_id |-> ids]

\* Block b of n cells over the same genes and layers: the barcodes of a
\* sample, and rows that tell the block and the row they came from.
BlockOf(b, n) ==
    [obs |-> Barcodes(n), var |-> GeneTable(MaxDim),
     X |-> [r \in 1..n |-> <<"X", b, r>>],
     layers |-> [key \in {"spliced", "unspliced"} |->
                    [r \in 1..n |-> <<key, b, r>>]]]

BlockLists ==
    UNION {{[b \in 1..n |-> BlockOf(b, sizes[b])] :
               sizes \in [1..n -> 0..MaxRows]} : n \in 1..MaxBlocks}

LayerKeyChoices == {None, Some({}), Some({"spliced"})}

SampleLabels == {"ctrl", "stim"}

SampleIdLists ==
    {None} \cup
    UNION {{Some(l) : l \in [1..n -> SampleLabels]} :
              n \in 0..(MaxBlocks * MaxRows + 1)}

InitHstack ==
    /\ pc = "adata_hstack"
    /\ \E blocks \in BlockLists, sample_ids \in SampleIdLists :
          \E layer_keys \in LayerKeyChoices :
             args = [blocks |-> blocks, sample_ids |-> sample_ids,
                     layer_keys |-> layer_keys]
    /\ fs = EmptyFs
    /\ ret = Unset
    /\ trace = <<>>

adata_hstack ==
    /\ pc = "adata_hstack"
    /\ ret' = AdataHstack(args.blocks, args.sample_ids, args.layer_keys)
    /\ pc' = "done"
    /\ UNCHANGED <<args, fs, trace>>

SpecHstack == InitHstack /\ [][adata_hstack]_vars

\* The cells of the input in block order: the block position (from zero),
\* the obs index and the row of each.
RECURSIVE InputCells(_, _)
InputCells(blocks, b) ==
    IF b > Len(blocks) THEN <<>>
    ELSE [r \in 1..Len(blocks[b].obs) |->
             [k |-> b - 1, index |-> blocks[b].obs[r], row |-> blocks[b].X[r]]]
         \o InputCells(blocks, b + 1)

Cells == InputCells(args.blocks, 1)

Supplied ==
    args.sample_ids # None /\ Len(args.sample_ids[1]) = Len(Cells)

\* C5: the result has one row per input cell in block order; cell_id is the
\* cell's obs index, ":" and its sample_id; sample_id is the caller's entry
\* when sample_ids has one entry per cell and "S<k>", k the zero-based
\* position of the cell's block, otherwise.
C5_HstackIdentifiers ==
    pc = "done" =>
        /\ ret.exc = "none"
        /\ Len(ret.X) = Len(Cells)
        /\ Len(ret.cell_id) = Len(Cells)
        /\ Len(ret.sample_id) = Len(Cells)
        /\ \A i \in 1..Len(Cells) :
              /\ ret.X[i] = Cells[i].row
              /\ ret.cell_id[i] = Cells[i].index \o ":" \o ret.sample_id[i]
              /\ ret.sample_id[i] =
                    IF Supplied THEN args.sample_ids[1][i]
                    ELSE "S" \o ToString(Cells[i].k)

C5_Witness ==
    /\ pc = "done"
    /\ Len(args.blocks) = MaxBlocks
    /\ args.sample_ids = None
    /\ \A b \in 1..MaxBlocks : Len(args.blocks[b].obs) = MaxRows
    /\ ret.cell_id[Len(ret.cell_id)] =
          Barcodes(MaxRows)[MaxRows] \o ":S" \o ToString(MaxBlocks - 1)
    /\ ret.layers # None

C5_WitnessSupplied ==
    /\ pc = "done"
    /\ Supplied
    /\ Len(Cells) > MaxRows
    /\ ret.sample_id = args.sample_ids[1]
    /\ Barcodes(MaxRows)[1] \o ":stim" \in {ret.cell_id[i] : i \in 1..Len(ret.cell_id)}

C6_WitnessShort ==
    /\ pc = "done"
    /\ args.sample_ids # None
    /\ Len(args.sample_ids[1]) > 0
    /\ Len(args.sample_ids[1]) < Len(Cells)
    /\ ret.exc = "none"

(***************************************************************************)
(* read_dropEst                                                            *)
(***************************************************************************)
MaxFiles == 3      \* layer files in a call of read_dropEst: 0..MaxFiles
MaxKeys == 3       \* layer keys in a call of read_dropEst: 0..MaxKeys

\* pd.read_csv(..., sep="\t", index_col=0, header=None): one row per line,
\* indexed by the first field.
read_csv(file) == [k \in 1..Len(file.lines) |-> file.lines[k][1]]

\* The values of a list, as a set.
Range(l) == {l[k] : k \in 1..Len(l)}

\* len(mat_list) == 0
NoMatricesNever(mat_list) == FALSE

NoMatrices(mat_list) == Len(mat_list) = 0

\* mat_list[1] += mat_list[2]; mat_list = mat_list[:2]
MergeKeepSecond(mat_list) == <<mat_list[1], mat_list[2]>>

Merge(mat_list) == <<mat_list[1], MatAdd(mat_list[2], mat_list[3])>>

\* if combine_unspliced and len(mat_list) == 3
MergeOn(combine_unspliced, mat_list) ==
    combine_unspliced /\ Len(mat_list) = 3

\* The caller's keys kept whatever their number.
KeysUnchecked(layer_keys, n) == layer_keys

\* if len(layer_keys) != len(mat_list):
\*     layer_keys = ['matrix%d' %(x + 1) for x in range(len(mat_list))]
KeysFor(layer_keys, n) ==
    IF Len(layer_keys) # n
    THEN [x \in 1..n |-> "matrix" \o ToString(x)]
    ELSE layer_keys

\* for i in range(len(mat_list)): layers[layer_keys[i]] = mat_list[i]
\* A key set twice keeps the matrix set last.
LayersDict(keys, mat_list) ==
    [key \in {keys[i] : i \in 1..Len(mat_list)} |->
        LET last == CHOOSE i \in 1..Len(mat_list) :
                       /\ keys[i] = key
                       /\ \A j \in (i + 1)..Len(mat_list) : keys[j] # key
        IN  mat_list[last]]

\* The statements after the files are read; out is what was printed.
BuildAdata(genes, cells, loaded, layer_keys, combine_unspliced) ==
    IF NoMatrices(loaded)
    THEN [exc |-> "none", value |-> None,
          out |-> <<"Error: requiring at least one matrix.">>]
    ELSE LET merged == MergeOn(combine_unspliced, loaded)
             mat_list == IF merged THEN Merge(loaded) ELSE loaded
             keys1 == IF merged THEN <<"spliced", "unspliced">> ELSE layer_keys
             keys == KeysFor(keys1, Len(mat_list))
             out == IF Len(keys1) # Len(mat_list)
                    THEN <<"Warning: len(layer_keys) != len(mat_list). Use index instead.">>
                    ELSE <<>>
         IN  IF Len(keys) < Len(mat_list) \/ Len(mat_list) = 0
             THEN [exc |-> "IndexError", out |-> out]
             ELSE IF mat_list[1].shape # <<Len(cells), Len(genes)>>
             THEN [exc |-> "ValueError", out |-> out]
             ELSE [exc |-> "none",
                   value |-> Some([X |-> mat_list[1], obs |-> cells,
                                   var |-> genes,
                                   layers |-> LayersDict(keys, mat_list)]),
                   out |-> out]

ReadDropEst(fsys, path, cell_file, gene_file, layer_keys, layer_files, combine) ==
    LET g == FileRef(path, "/" \o gene_file)
        c == FileRef(path, "/" \o cell_file)
        m == [k \in 1..Len(layer_files) |-> FileRef(path, "/" \o layer_files[k])]
    IN  IF Exists(fsys, g) /\ Exists(fsys, c)
           /\ \A k \in 1..Len(m) : Exists(fsys, m[k])
        THEN BuildAdata(read_csv(fsys[g]), read_csv(fsys[c]),
                        [k \in 1..Len(m) |-> Transpose(mmread(fsys[m[k]]))],
                        layer_keys, combine)
        ELSE [exc |-> "FileNotFoundError", out |-> <<>>]

\* The k-th count matrix file of a dropEst folder.
LayerFile(k) ==
    IF k <= 3
    THEN "cell.counts." \o <<"exon", "intron", "spanning">>[k] \o ".mtx"
    ELSE "cell.counts.extra" \o ToString(k) \o ".mtx"

\* A count matrix of MaxDim genes by MaxDim + 1 cells with v on its diagonal.
CountMatrix(v) ==
    Matrix(MaxDim, MaxDim + 1,
           [p \in Cells2D(MaxDim, MaxDim + 1) |-> IF p[1] = p[2] THEN v ELSE 0])

\* A dropEst folder: the gene and barcode tables and one matrix per seed.
DropEstFolder(path, seeds) ==
    LET g == FileRef(path, "/genes.tsv")
        c == FileRef(path, "/barcodes.tsv")
        m == [k \in 1..Len(seeds) |-> FileRef(path, "/" \o LayerFile(k))]
    IN  [r \in {g, c} \cup Range(m) |->
            IF r = g THEN TsvFile(GeneTable(MaxDim))
            ELSE IF r = c
            THEN TsvFile([j \in 1..(MaxDim + 1) |-> <<Barcodes(MaxDim + 1)[j]>>])
            ELSE mmwrite(CountMatrix(seeds[CHOOSE k \in 1..Len(seeds) : m[k] = r]))]

KeyNames == {"exon", "intron", "spanning"}

KeyLists == UNION {[1..n -> KeyNames] : n \in 0..MaxKeys}

InitDropEst ==
    /\ pc = "read_dropEst"
    /\ \E n \in 0..MaxFiles :
          \E seeds \in [1..n -> 0..MaxCount], layer_keys \in KeyLists,
             combine_unspliced \in BOOLEAN :
             /\ fs = DropEstFolder(<<"dropEst">>, seeds)
             /\ args = [path |-> <<"dropEst">>, cell_file |-> "barcodes.tsv",
                        gene_file |-> "genes.tsv", layer_keys |-> layer_keys,
                        layer_files |-> [k \in 1..n |-> LayerFile(k)],
                        combine_unspliced |-> combine_unspliced]
    /\ ret = Unset
    /\ trace = <<>>

read_dropEst ==
    /\ pc = "read_dropEst"
    /\ LET r == ReadDropEst(fs, args.path, args.cell_file, args.gene_file,
                            args.layer_keys, args.layer_files,
                            args.combine_unspliced)
       IN  /\ ret' = IF r.exc = "none"
                     THEN [exc |-> "none", value |-> r.value]
                     ELSE Raise(r.exc)
           /\ trace' = trace \o r.out
    /\ pc' = "done"
    /\ UNCHANGED <<args, fs>>

SpecDropEst == InitDropEst /\ [][read_dropEst]_vars

(***************************************************************************)
(* Claims about read_dropEst                                               *)
(***************************************************************************)
\* The matrices of the layer files in load order, cells by genes.
Loaded ==
    [k \in 1..Len(args.layer_files) |->
        Transpose(mmread(fs[FileRef(args.path, "/" \o args.layer_files[k])]))]

Merging == args.combine_unspliced /\ Len(Loaded) = 3

\* The number of matrices left after the optional merge.
MatricesLeft == IF Merging THEN 2 ELSE Len(Loaded)

Adata == ret.value[1]

ReturnedAdata == pc = "done" /\ ret.exc = "none" /\ ret.value # None

Distinct(l) == \A i, j \in 1..Len(l) : l[i] = l[j] => i = j

\* C7: with no layer file, read_dropEst prints an error and returns None;
\* no annotated matrix is built and nothing is raised.
C7_NoMatricesReturnsNone ==
    (pc = "done" /\ args.layer_files = <<>>) =>
        /\ ret = [exc |-> "none", value |-> None]
        /\ trace = <<"Error: requiring at least one matrix.">>

C7_Witness ==
    /\ pc = "done"
    /\ args.layer_files = <<>>
    /\ args.combine_unspliced
    /\ Len(args.layer_keys) = MaxKeys
    /\ ret.value = None

\* The merged result of C8: two layers, 'spliced' the first matrix and
\* 'unspliced' the sum of the second and the third, X the first matrix.
MergedAsClaimed ==
    /\ ret.exc = "none"
    /\ ret.value # None
    /\ DOMAIN Adata.layers = {"spliced", "unspliced"}
    /\ Adata.layers["spliced"] = Loaded[1]
    /\ Adata.layers["unspliced"] = MatAdd(Loaded[2], Loaded[3])
    /\ Adata.X = Loaded[1]

\* Every loaded matrix is a layer of its own: there are as many layers as
\* matrices, and each matrix is the layer of a key that no other matrix has.
EachItsOwnLayer ==
    /\ ret.exc = "none"
    /\ ret.value # None
    /\ Cardinality(DOMAIN Adata.layers) = Len(Loaded)
    /\ \E keys \in [1..Len(Loaded) -> DOMAIN Adata.layers] :
          /\ Distinct(keys)
          /\ \A i \in 1..Len(Loaded) : Adata.layers[keys[i]] = Loaded[i]

\* C8 as stated: merged as claimed when combine_unspliced is true and three
\* files are loaded, whatever layer_keys is; every loaded matrix its own
\* layer otherwise.
C8_LayerMerging ==
    (pc = "done" /\ Loaded # <<>>) =>
        IF Merging THEN MergedAsClaimed ELSE EachItsOwnLayer

\* C8 amended: as stated, but without a merge every loaded matrix is its own
\* layer when the keys in use are pairwise distinct; a key given twice keeps
\* only the matrix loaded last under it.
C8_LayerMergingDistinctKeys ==
    (pc = "done" /\ Loaded # <<>>) =>
        IF Merging THEN MergedAsClaimed
        ELSE /\ ret.exc = "none"
             /\ ret.value # None
             /\ Adata.X = Loaded[1]
             /\ (Len(args.layer_keys) = Len(Loaded) /\ Distinct(args.layer_keys))
                   => \A i \in 1..Len(Loaded) :
                         Adata.layers[args.layer_keys[i]] = Loaded[i]
             /\ Len(args.layer_keys) # Len(Loaded) => EachItsOwnLayer
             /\ Len(args.layer_keys) = Len(Loaded) =>
                   \A key \in DOMAIN Adata.layers :
                      \E i \in 1..Len(Loaded) :
                         /\ args.layer_keys[i] = key
                         /\ Adata.layers[key] = Loaded[i]
                         /\ \A j \in (i + 1)..Len(Loaded) :
                               args.layer_keys[j] # key

C8_Witness ==
    /\ pc = "done"
    /\ Merging
    /\ args.layer_keys = <<"exon", "exon">>
    /\ ret.exc = "none"
    /\ Adata.layers["unspliced"] # Loaded[2]
    /\ Adata.layers["unspliced"] # Loaded[3]

C8_WitnessNoMerge ==
    /\ pc = "done"
    /\ ~args.combine_unspliced
    /\ Len(Loaded) = 3
    /\ Distinct(args.layer_keys)
    /\ Len(args.layer_keys) = 3
    /\ ret.exc = "none"
    /\ Cardinality(DOMAIN Adata.layers) = 3

\* C10 as stated: whenever an annotated matrix is returned, it has as many
\* layers as matrices are left after the optional merge, for every
\* layer_keys, layer_files and combine_unspliced.
C10_LayerCount ==
    ReturnedAdata => Cardinality(DOMAIN Adata.layers) = MatricesLeft

\* C10 amended: the number of layers is the number of different keys in
\* use: the number of matrices left when the merge ran, when the caller's
\* keys are not as many as the matrices (they become 'matrix1', 'matrix2',
\* ... in load order) or when the caller's keys are pairwise distinct, and
\* fewer when a key is given twice.
C10_LayerCountDistinctKeys ==
    ReturnedAdata =>
        /\ Merging => DOMAIN Adata.layers = {"spliced", "unspliced"}
        /\ (~Merging /\ Len(args.layer_keys) # Len(Loaded)) =>
              /\ DOMAIN Adata.layers =
                    {"matrix" \o ToString(x) : x \in 1..Len(Loaded)}
              /\ \A x \in 1..Len(Loaded) :
                    Adata.layers["matrix" \o ToString(x)] = Loaded[x]
        /\ (~Merging /\ Len(args.layer_keys) = Len(Loaded)) =>
              DOMAIN Adata.layers = Range(args.layer_keys)
        /\ (Merging \/ Len(args.layer_keys) # Len(Loaded)
                    \/ Distinct(args.layer_keys)) =>
              Cardinality(DOMAIN Adata.layers) = MatricesLeft
        /\ Cardinality(DOMAIN Adata.layers) <= MatricesLeft

C10_Witness ==
    /\ ReturnedAdata
    /\ ~Merging
    /\ Len(Loaded) = 2
    /\ Len(args.layer_keys) = 3
    /\ DOMAIN Adata.layers = {"matrix1", "matrix2"}

C10_WitnessRepeatedKey ==
    /\ ReturnedAdata
    /\ ~Merging
    /\ Len(Loaded) = 2
    /\ args.layer_keys = <<"exon", "exon">>
    /\ Cardinality(DOMAIN Adata.layers) = 1

(***************************************************************************)
(* adata_preprocess: a straight line of library calls.  pc names the call  *)
(* that runs next and trace lists the calls made, each with the threshold  *)
(* argument it was given (None when it takes none of the caller's).        *)
(***************************************************************************)
\* The statements of adata_preprocess in program order, then the return.
Statements ==
    <<"filter_cells", "filter_genes", "obs_stats", "max_genes",
      "max_percent_mito", "raw_log1p", "normalize_per_cell",
      "filter_genes_dispersion", "log1p", "regress_out", "scale", "pca",
      "tsne", "neighbors", "umap", "return">>

\* The statement that follows a statement, with umap ahead of neighbors.
AfterUmapFirst(step) ==
    IF step = "tsne" THEN "umap"
    ELSE IF step = "umap" THEN "neighbors"
    ELSE IF step = "neighbors" THEN "return"
    ELSE Statements[1 + CHOOSE k \in 1..Len(Statements) : Statements[k] = step]

\* The statement that follows a statement.
After(step) ==
    Statements[1 + CHOOSE k \in 1..Len(Statements) : Statements[k] = step]

Call(step, arg) ==
    /\ pc = step
    /\ trace' = Append(trace, [fn |-> step, arg |-> arg])
    /\ pc' = After(step)
    /\ UNCHANGED <<args, fs, ret>>

\* sc.pp.filter_cells(adata, min_genes=min_genes); print(adata.shape)
filter_cells == Call("filter_cells", Some(args.min_genes))

\* sc.pp.filter_genes(adata, min_cells=min_cells); print(adata.shape)
filter_genes == Call("filter_genes", Some(args.min_cells))

\* mito_genes; adata.obs['n_counts'], ['n_genes'], ['n_mito'], ['percent_mito']
obs_stats == Call("obs_stats", None)

\* adata = adata[adata.obs['n_genes'] < max_genes, :]
max_genes == Call("max_genes", Some(args.max_genes))

\* adata = adata[adata.obs['percent_mito'] < max_percent_mito, :]
max_percent_mito == Call("max_percent_mito", Some(args.max_percent_mito))

\* adata.raw = sc.pp.log1p(adata, copy=True)
raw_log1p == Call("raw_log1p", None)

\* sc.pp.normalize_per_cell(adata, counts_per_cell_after=1e4)
normalize_per_cell == Call("normalize_per_cell", None)

\* filter_result = sc.pp.filter_genes_dispersion(...); adata = adata[:, ...]
filter_genes_dispersion == Call("filter_genes_dispersion", None)

\* sc.pp.log1p(adata)
log1p == Call("log1p", None)

\* sc.pp.regress_out(adata, ['n_counts', 'percent_mito'])
regress_out == Call("regress_out", None)

\* sc.pp.scale(adata, max_value=10)
scale == Call("scale", None)

\* sc.tl.pca(adata); adata.obsm['X_pca'] *= -1
pca == Call("pca", None)

\* sc.tl.tsne(adata, random_state=2, n_pcs=10)
tsne == Call("tsne", None)

\* sc.pp.neighbors(adata, n_neighbors=10)
neighbors == Call("neighbors", None)

\* sc.tl.umap(adata)
umap == Call("umap", None)

\* return adata
return ==
    /\ pc = "return"
    /\ ret' = [exc |-> "none", value |-> "adata"]
    /\ pc' = "done"
    /\ UNCHANGED <<args, fs, trace>>

\* Thresholds in small units: counts of cells and genes, and the
\* mitochondrial fraction in steps of 1 / MaxThresh.
InitPreprocess ==
    /\ pc = Statements[1]
    /\ \E min_cells \in 0..MaxThresh, min_genes \in 0..MaxThresh,
          mx_genes \in 0..MaxThresh, mx_mito \in 0..MaxThresh :
          args = [min_cells |-> min_cells, min_genes |-> min_genes,
                  max_genes |-> mx_genes, max_percent_mito |-> mx_mito]
    /\ fs = EmptyFs
    /\ ret = Unset
    /\ trace = <<>>

NextPreprocess ==
    \/ filter_cells \/ filter_genes \/ obs_stats \/ max_genes
    \/ max_percent_mito \/ raw_log1p \/ normalize_per_cell
    \/ filter_genes_dispersion \/ log1p \/ regress_out \/ scale
    \/ pca \/ tsne \/ neighbors \/ umap \/ return

SpecPreprocess == InitPreprocess /\ [][NextPreprocess]_vars

\* The order of the steps as the claim gives it, with the threshold each
\* filter is given.
ClaimedOrder ==
    <<[fn |-> "filter_cells", arg |-> Some(args.min_genes)],
      [fn |-> "filter_genes", arg |-> Some(args.min_cells)],
      [fn |-> "obs_stats", arg |-> None],
      [fn |-> "max_genes", arg |-> Some(args.max_genes)],
      [fn |-> "max_percent_mito", arg |-> Some(args.max_percent_mito)],
      [fn |-> "raw_log1p", arg |-> None],
      [fn |-> "normalize_per_cell", arg |-> None],
      [fn |-> "filter_genes_dispersion", arg |-> None],
      [fn |-> "log1p", arg |-> None],
      [fn |-> "regress_out", arg |-> None],
      [fn |-> "scale", arg |-> None],
      [fn |-> "pca", arg |-> None],
      [fn |-> "tsne", arg |-> None],
      [fn |-> "neighbors", arg |-> None],
      [fn |-> "umap", arg |-> None]>>

Ran(step) == \E i \in 1..Len(trace) : trace[i].fn = step

====
